---- MODULE Spec2Model ----
(***************************************************************************)
(* simpleDS: the delay-spectrum routines of simpleDS/delay_spectrum.py and *)
(* the UnitParameter class of simpleDS/parameter.py.                       *)
(*                                                                         *)
(* An ndarray is a record [shape, data]: its shape tuple and its elements  *)
(* in C (row-major) order.  A complex number is a record [re, im] of       *)
(* integers (a Gaussian integer), so every sum and product is exact.  The  *)
(* discrete Fourier transform is exact on Gaussian integers for the        *)
(* lengths whose roots of unity are Gaussian integers: 1, 2 and 4.         *)
(***************************************************************************)
EXTENDS Integers, Sequences, FiniteSets, TLC

VARIABLES pc, heap, args, ret

vars == <<pc, heap, args, ret>>

(***************************************************************************)
(* Bounds of the model.                                                    *)
(***************************************************************************)
\* the largest number of elements of a spectrum or sample-count array
MaxCells == 4
\* the largest number of times (Ntimes) of a spectrum or sample-count array
MaxTimes == 1
\* the largest rank remove_auto_correlations is called with
MaxRank == 6
\* the largest number of elements remove_auto_correlations is called with
MaxAutoCells == 9
\* the largest number of frequencies calculate_noise_power is called with
MaxFreqs == 2

(***************************************************************************)
(* Complex arithmetic (numpy complex128, exact on Gaussian integers).      *)
(***************************************************************************)
Cx(r, i) == [re |-> r, im |-> i]

CAdd(a, b) == Cx(a.re + b.re, a.im + b.im)

CMul(a, b) == Cx(a.re * b.re - a.im * b.im, a.re * b.im + a.im * b.re)

Conj(a) == Cx(a.re, 0 - a.im)

CScale(k, a) == Cx(k * a.re, k * a.im)

(***************************************************************************)
(* ndarray: shape, C-order offsets, indexing, broadcasting.                *)
(***************************************************************************)
RECURSIVE Prod(_)
Prod(s) == IF Len(s) = 0 THEN 1 ELSE Head(s) * Prod(Tail(s))

\* the C-order strides of a shape, in elements: the product of the later axes
Strides(shape) ==
    [d \in 1..Len(shape) |-> Prod(SubSeq(shape, d + 1, Len(shape)))] \o << >>

\* the elements are held as a tuple in C order
NdArray(shape, data) == [shape |-> shape, data |-> data \o << >>]

Rank(a) == Len(a.shape)

RECURSIVE DotFrom(_, _, _)
DotFrom(idx, strides, k) ==
    IF k = 0 THEN 0 ELSE idx[k] * strides[k] + DotFrom(idx, strides, k - 1)

\* the flat C-order offset (0-based) of the 0-based multi-index idx
Ravel(idx, shape) == DotFrom(idx, Strides(shape), Len(shape))

\* the 0-based multi-index of the flat C-order offset k
UnravelBy(k, shape, strides) ==
    [d \in 1..Len(shape) |-> (k \div strides[d]) % shape[d]]

Unravel(k, shape) == UnravelBy(k, shape, Strides(shape))

At(a, idx) == a.data[Ravel(idx, a.shape) + 1]

\* a[..., None, ...]: a new axis of length 1 inserted at position axis (0-based)
ExpandDims(a, axis) ==
    NdArray(SubSeq(a.shape, 1, axis) \o <<1>>
                \o SubSeq(a.shape, axis + 1, Len(a.shape)), a.data)

\* numpy broadcasting: shapes are right-aligned, missing leading axes count 1
PadShape(shape, n) == [k \in 1..(n - Len(shape)) |-> 1] \o shape

Max(x, y) == IF x >= y THEN x ELSE y

Min(x, y) == IF x <= y THEN x ELSE y

Broadcastable(s1, s2) ==
    LET n == Max(Len(s1), Len(s2))
        p1 == PadShape(s1, n)
        p2 == PadShape(s2, n)
    IN  \A k \in 1..n : p1[k] = p2[k] \/ p1[k] = 1 \/ p2[k] = 1

BroadcastShapeOf(p1, p2) == [k \in 1..Len(p1) |-> IF p1[k] = 1 THEN p2[k] ELSE p1[k]] \o << >>

BroadcastShape(s1, s2) ==
    BroadcastShapeOf(PadShape(s1, Max(Len(s1), Len(s2))),
                     PadShape(s2, Max(Len(s1), Len(s2))))

\* the strides an array of padded shape p is read with under broadcasting:
\* an axis of length 1 is repeated (stride 0)
BroadcastStrides(p) ==
    [d \in 1..Len(p) |->
        IF p[d] = 1 THEN 0 ELSE Prod(SubSeq(p, d + 1, Len(p)))] \o << >>

\* the element of a that the broadcast multi-index idx (of rank n) reads
BAt(a, idx) ==
    a.data[DotFrom(idx, BroadcastStrides(PadShape(a.shape, Len(idx))), Len(idx)) + 1]

\* x * y for two elements of the given dtype
Times(dtype, x, y) == IF dtype = "complex" THEN CMul(x, y) ELSE x * y

\* a * b read with the broadcast strides st1 and st2 into the given shape
MultiplyBy(dtype, a, b, st1, st2, shape, strides) ==
    NdArray(shape,
        [k \in 1..Prod(shape) |->
            Times(dtype,
                  a.data[DotFrom(UnravelBy(k - 1, shape, strides), st1, Len(shape)) + 1],
                  b.data[DotFrom(UnravelBy(k - 1, shape, strides), st2, Len(shape)) + 1])])

\* a * b: the elementwise product with broadcasting
Multiply(dtype, a, b) ==
    MultiplyBy(dtype, a, b,
               BroadcastStrides(PadShape(a.shape, Max(Len(a.shape), Len(b.shape)))),
               BroadcastStrides(PadShape(b.shape, Max(Len(a.shape), Len(b.shape)))),
               BroadcastShape(a.shape, b.shape),
               Strides(BroadcastShape(a.shape, b.shape)))

\* a.conj()
ConjArray(a) == NdArray(a.shape, [k \in 1..Len(a.data) |-> Conj(a.data[k])])

\* a * c for a real scalar c
ScaleArray(c, a) == NdArray(a.shape, [k \in 1..Len(a.data) |-> CScale(c, a.data[k])])

\* a real array read as a complex one (the type numpy promotes it to in a
\* product with a complex array)
AsComplex(a) == NdArray(a.shape, [k \in 1..Len(a.data) |-> Cx(a.data[k], 0)])

(***************************************************************************)
(* numpy.fft.fft / fftshift along the last axis.                           *)
(***************************************************************************)
\* the lengths whose transform is exact on Gaussian integers
FftLengths == {1, 2, 4}

\* exp(-2 pi i m / n) for n in FftLengths
Twiddle(n, m) ==
    LET q == (m * (4 \div n)) % 4
    IN  CASE q = 0 -> Cx(1, 0)
          [] q = 1 -> Cx(0, -1)
          [] q = 2 -> Cx(-1, 0)
          [] q = 3 -> Cx(0, 1)

\* the sum of a tuple of complex numbers
RECURSIVE CSum(_)
CSum(terms) ==
    IF Len(terms) = 0 THEN Cx(0, 0)
    ELSE CAdd(CSum(SubSeq(terms, 1, Len(terms) - 1)), terms[Len(terms)])

\* np.fft.fft(a, axis=-1): X[k] = sum_n a[n] exp(-2 pi i k n / N), along
\* each row of N elements
fftOf(a, N) ==
    NdArray(a.shape,
        [k \in 1..Len(a.data) |->
            CSum([n \in 1..N |-> CMul(a.data[((k - 1) - ((k - 1) % N)) + n],
                                       Twiddle(N, ((k - 1) % N) * (n - 1)))])])

fft(a) == fftOf(a, a.shape[Len(a.shape)])

\* np.fft.fftshift(a, axes=-1): roll the last axis by N // 2
fftshiftOf(a, N) ==
    NdArray(a.shape,
        [k \in 1..Len(a.data) |->
            a.data[((k - 1) - ((k - 1) % N)) + ((((k - 1) % N) + N - (N \div 2)) % N) + 1]])

fftshift(a) == fftshiftOf(a, a.shape[Len(a.shape)])

\* the index of the zero-delay bin after fftshift
ZeroBin(N) == N \div 2

(***************************************************************************)
(* Python values: None, plain numbers, astropy Quantity, exceptions.       *)
(***************************************************************************)
\* the None reference (heap references are 1, 2, ...)
None == 0

\* expected_units=None
NoUnits == ""

\* an astropy Quantity: a number tagged with a unit
Quantity(v, u) == [kind |-> "quantity", value |-> v, unit |-> u]

\* a plain Python number (no unit)
Plain(v) == [kind |-> "plain", value |-> v]

\* a keyword argument the caller did not pass
Absent == [kind |-> "absent"]

\* isinstance(x, Quantity)
IsQuantity(x) == x.kind = "quantity"

\* the units the model passes and their physical dimension
Dimension(u) ==
    CASE u \in {"Hz", "kHz", "1/s"} -> "frequency"
      [] u \in {"s"} -> "time"
      [] u \in {"K"} -> "temperature"
      [] u \in {"m", "km"} -> "length"
      [] OTHER -> u

\* the size of one unit u in the SI base unit of its dimension
SiFactor(u) ==
    CASE u \in {"Hz", "1/s", "s", "K", "m"} -> 1
      [] u \in {"kHz", "km"} -> 1000
      [] OTHER -> 1

\* unit.is_equivalent(other)
IsEquivalent(u, v) == Dimension(u) = Dimension(v)

Return(v) == [kind |-> "return", value |-> v]

Raise(exc, msg) == [kind |-> "raise", exc |-> exc, msg |-> msg]

\* ndarray.copy(): a new object with the same shape and elements
copy(a) == NdArray(a.shape, a.data)

\* allocate a new heap object; its reference is Len(h) + 1
Alloc(h, obj) == Append(h, obj)

(***************************************************************************)
(* delay_transform                                                         *)
(***************************************************************************)
\* window(nfreqs): the caller's tapering function, real-valued.  The model
\* passes integer-valued tapers: "boxcar" is scipy.signal.windows.boxcar,
\* "ramp" rises by one per channel.
Window(window, nfreqs) ==
    IF window = "boxcar" THEN [k \in 1..nfreqs |-> 1]
    ELSE [k \in 1..nfreqs |-> k]

\* a variant whose default is the plain number 1.
DefaultDeltaFPlain == Plain(1)

\* the default of line 24: delta_f=1. * units.Hz
DefaultDeltaF == Quantity(1, "Hz")

\* a variant that binds the first array itself: data_2_array = data_1_array
DefaultSecondAlias(h, data_1_array, data_2_array) ==
    [heap |-> h, ref |-> IF data_2_array = None THEN data_1_array ELSE data_2_array]

\* lines 56-57 and 107-108: the heap and the reference bound to the second
\* array; when it is None, a new object, data_1_array.copy()
DefaultSecond(h, data_1_array, data_2_array) ==
    IF data_2_array = None
    THEN [heap |-> Alloc(h, copy(h[data_1_array])), ref |-> Len(h) + 1]
    ELSE [heap |-> h, ref |-> data_2_array]

\* np.fft.fftshift(np.fft.fft(data * win, axis=-1), axes=-1) * delta_f.to('1/s') * unit
DelayArray(data, win, perSecond) ==
    ScaleArray(perSecond, fftshift(fft(Multiply("complex", data, AsComplex(win)))))

\* a variant that leaves out the delta_f factor of the second array
DelayArraysSecondUnscaled(d1, d2, win, perSecond) ==
    [delay_1 |-> DelayArray(d1, win, perSecond), delay_2 |-> DelayArray(d2, win, 1)]

\* lines 71-73 and 75-77: both arrays are transformed and scaled alike
DelayArrays(d1, d2, win, perSecond) ==
    [delay_1 |-> DelayArray(d1, win, perSecond),
     delay_2 |-> DelayArray(d2, win, perSecond)]

\* a variant with the new axes exchanged:
\* delay_1_array[:, None, :, :].conj() * delay_2_array[None, :, :]  (rank 3)
CrossMultiplySwapped(delay_1_array, delay_2_array, rank) ==
    IF rank = 3
    THEN Multiply("complex", ConjArray(ExpandDims(delay_1_array, 1)),
                  ExpandDims(delay_2_array, 0))
    ELSE Multiply("complex", ConjArray(ExpandDims(delay_1_array, 2)),
                  ExpandDims(delay_2_array, 1))

\* lines 80-85:
\* delay_1_array[None, :, :].conj() * delay_2_array[:, None, :, :]  (rank 3)
\* delay_1_array[:, None, :, :].conj() * delay_2_array[:, :, None, :, :]  (else)
CrossMultiply(delay_1_array, delay_2_array, rank) ==
    IF rank = 3
    THEN Multiply("complex", ConjArray(ExpandDims(delay_1_array, 0)),
                  ExpandDims(delay_2_array, 1))
    ELSE Multiply("complex", ConjArray(ExpandDims(delay_1_array, 1)),
                  ExpandDims(delay_2_array, 2))

CrossMultiplyPair(delays, rank) == CrossMultiply(delays.delay_1, delays.delay_2, rank)

\* isinstance(delta_f, Quantity), line 52
DeltaFCheck(delta_f) == IsQuantity(delta_f)

\* a variant that compares the number of frequencies only
ShapeMismatchLast(s1, s2) == s1[Len(s1)] # s2[Len(s2)]

\* not data_2_array.shape == data_1_array.shape, lines 59 and 110
ShapeMismatch(s1, s2) == s1 # s2

\* the call delay_transform(data_1_array, data_2_array, delta_f, window) on
\* heap h: the heap after the call, the reference bound to data_2_array, and
\* the value returned or the exception raised
delay_transform(h, data_1_array, data_2_array, delta_f_arg, window) ==
    LET delta_f == IF delta_f_arg = Absent THEN DefaultDeltaF ELSE delta_f_arg
        second == DefaultSecond(h, data_1_array, data_2_array)
        d1 == h[data_1_array]
        d2 == second.heap[second.ref]
        nfreqs == d1.shape[Len(d1.shape)]
        win == NdArray(<<1, nfreqs>>, Window(window, nfreqs))
    IN  IF ~DeltaFCheck(delta_f)
        THEN [heap |-> h, data_2 |-> data_2_array,
              ret |-> Raise("ValueError", "delta_f must be an astropy Quantity object")]
        ELSE IF ShapeMismatch(d1.shape, d2.shape)
        THEN [heap |-> second.heap, data_2 |-> second.ref,
              ret |-> Raise("ValueError",
                            "data_1_array and data_2_array must have same shape")]
        ELSE IF ~IsQuantity(delta_f)
        THEN [heap |-> second.heap, data_2 |-> second.ref,
              ret |-> Raise("AttributeError", "object has no attribute 'to'")]
        ELSE IF ~IsEquivalent(delta_f.unit, "1/s")
        THEN [heap |-> second.heap, data_2 |-> second.ref,
              ret |-> Raise("UnitConversionError", "delta_f")]
        ELSE [heap |-> second.heap, data_2 |-> second.ref,
              ret |-> Return(CrossMultiplyPair(
                          DelayArrays(d1, d2, win, delta_f.value * SiFactor(delta_f.unit)),
                          Len(d1.shape)))]

(***************************************************************************)
(* combine_nsamples                                                        *)
(***************************************************************************)
\* np.sqrt on a non-negative integer: the root, exact on perfect squares
RECURSIVE SqrtFrom(_, _)
SqrtFrom(m, r) == IF (r + 1) * (r + 1) > m THEN r ELSE SqrtFrom(m, r + 1)

Sqrt(m) == SqrtFrom(m, 0)

\* np.sqrt(a), elementwise
SqrtArray(a) == NdArray(a.shape, [k \in 1..Len(a.data) |-> Sqrt(a.data[k])])

\* a variant that leaves out the square root
GeometricMeanNoRoot(nsample_1, nsample_2, rank) ==
    IF rank = 3
    THEN Multiply("float", ExpandDims(nsample_1, 0), ExpandDims(nsample_2, 1))
    ELSE Multiply("float", ExpandDims(nsample_1, 1), ExpandDims(nsample_2, 2))

\* lines 119-124:
\* np.sqrt(nsample_1[None, :, :] * nsample_2[:, None, :, :])  (rank 3)
\* np.sqrt(nsample_1[:, None, :, :] * nsample_2[:, :, None, :, :])  (else)
GeometricMean(nsample_1, nsample_2, rank) ==
    IF rank = 3
    THEN SqrtArray(Multiply("float", ExpandDims(nsample_1, 0), ExpandDims(nsample_2, 1)))
    ELSE SqrtArray(Multiply("float", ExpandDims(nsample_1, 1), ExpandDims(nsample_2, 2)))

\* the call combine_nsamples(nsample_1, nsample_2) on heap h
combine_nsamples(h, nsample_1, nsample_2) ==
    LET second == DefaultSecond(h, nsample_1, nsample_2)
        n1 == h[nsample_1]
        n2 == second.heap[second.ref]
    IN  IF ShapeMismatch(n1.shape, n2.shape)
        THEN [heap |-> second.heap, data_2 |-> second.ref,
              ret |-> Raise("ValueError",
                            "nsample_1 and nsample_2 must have same shape")]
        ELSE [heap |-> second.heap, data_2 |-> second.ref,
              ret |-> Return(GeometricMean(n1, n2, Len(n1.shape)))]

(***************************************************************************)
(* remove_auto_correlations                                                *)
(***************************************************************************)
\* a variant whose mask is True on the diagonal too
OffDiagonalAll(Nbls) == NdArray(<<Nbls, Nbls>>, [k \in 1..(Nbls * Nbls) |-> TRUE])

\* line 149: np.logical_not(np.diag(np.ones(Nbls, dtype=bool)))
OffDiagonal(Nbls) ==
    NdArray(<<Nbls, Nbls>>,
            [k \in 1..(Nbls * Nbls) |-> ((k - 1) \div Nbls) # ((k - 1) % Nbls)])

\* the multi-indices at which the boolean array mask is True, in C order
Nonzero(mask) ==
    SelectSeq([k \in 1..Prod(mask.shape) |-> Unravel(k - 1, mask.shape)],
              LAMBDA idx : At(mask, idx))

\* the selection of shape `shape`: its element at idx is the element of a at
\* the pair sel[idx[lead]] of the two masked axes
MaskSelectInto(a, sel, lead, shape) ==
    NdArray(shape,
        [k \in 1..Prod(shape) |->
            At(a, SubSeq(Unravel(k - 1, shape), 1, lead)
                    \o sel[Unravel(k - 1, shape)[lead + 1] + 1]
                    \o SubSeq(Unravel(k - 1, shape), lead + 2, Len(shape)))])

\* a[mask] (lead = 0) or a[:, mask] (lead = 1) for a rank-2 boolean mask: the
\* two masked axes collapse into one that lists the selected pairs in C order
MaskSelect(a, mask, lead) ==
    \* sel: the selected pairs; shape: the shape of the selection
    MaskSelectInto(a, Nonzero(mask), lead,
                   SubSeq(a.shape, 1, lead) \o <<Len(Nonzero(mask))>>
                       \o SubSeq(a.shape, lead + 3, Len(a.shape)))

\* a variant that accepts rank 4 only
RankAcceptedFourOnly(rank) == rank = 4

\* the rank test of lines 138-146: the rank is 4 or 5
RankAccepted(rank) == rank = 4 \/ rank = 5

\* the call remove_auto_correlations(data_array)
remove_auto_correlations(data_array) ==
    LET rank == Len(data_array.shape)
        lead == IF rank = 4 THEN 0 ELSE 1
        Nbls == data_array.shape[lead + 1]
        indices == OffDiagonal(Nbls)
    IN  IF ~RankAccepted(rank)
        THEN Raise("ValueError", "Input data_array must be of type "
                   \o "(Npols, Nbls, Nbls, Ntimes, Nfreqs) or (Nbls, Nbls, Ntimes, Nfreqs)")
        ELSE IF data_array.shape[lead + 2] # Nbls
        THEN Raise("IndexError", "boolean index did not match indexed array")
        ELSE Return(MaskSelect(data_array, indices, lead))

(***************************************************************************)
(* calculate_noise_power                                                   *)
(***************************************************************************)
\* a variant without the check of freqs
FirstNonQuantitySkipFreqs(freqs, inttime, trcvr) ==
    IF ~IsQuantity(inttime) THEN "inttime"
    ELSE IF ~IsQuantity(trcvr) THEN "trcvr"
    ELSE ""

\* the isinstance checks of lines 172-180, in the order the code makes them:
\* the argument whose check fails first, or "" when all three pass
FirstNonQuantity(freqs, inttime, trcvr) ==
    IF ~IsQuantity(inttime) THEN "inttime"
    ELSE IF ~IsQuantity(freqs) THEN "freqs"
    ELSE IF ~IsQuantity(trcvr) THEN "trcvr"
    ELSE ""

\* the call calculate_noise_power(nsamples, freqs, inttime, trcvr).  freqs is
\* a record [kind, unit, size]; the power law of lines 182-186 is real-valued
\* and the value returned is recorded by its unit and its shape only.
calculate_noise_power(nsamples, freqs, inttime, trcvr) ==
    LET bad == FirstNonQuantity(freqs, inttime, trcvr)
    IN  IF bad # ""
        THEN Raise("ValueError", bad \o " must be an astropy Quantity object")
        ELSE IF ~IsQuantity(freqs) \/ ~IsQuantity(trcvr) \/ ~IsQuantity(inttime)
        THEN Raise("AttributeError", "object has no attribute 'to'")
        ELSE IF ~IsEquivalent(freqs.unit, "Hz")
        THEN Raise("UnitConversionError", "freqs")
        ELSE IF ~IsEquivalent(trcvr.unit, "K")
        THEN Raise("UnitConversionError", "trcvr")
        ELSE IF freqs.size < 2
        THEN Raise("IndexError", "index 0 is out of bounds")
        ELSE IF ~IsEquivalent(inttime.unit, "s")
        THEN Raise("UnitConversionError", "inttime")
        ELSE IF ~Broadcastable(<<freqs.size>>, nsamples.shape)
        THEN Raise("ValueError", "operands could not be broadcast together")
        ELSE Return([unit |-> "K",
                     shape |-> BroadcastShape(<<freqs.size>>, nsamples.shape)])

(***************************************************************************)
(* Numbers of the parameter values: exact rationals [n, d], d > 0.         *)
(***************************************************************************)
RECURSIVE Gcd(_, _)
Gcd(a, b) == IF b = 0 THEN a ELSE Gcd(b, a % b)

Abs(x) == IF x < 0 THEN 0 - x ELSE x

Rat(n, d) ==
    LET g == Gcd(Abs(n), Abs(d))
    IN  IF d < 0 THEN [n |-> (0 - n) \div g, d |-> (0 - d) \div g]
        ELSE [n |-> n \div g, d |-> d \div g]

RAdd(a, b) == Rat(a.n * b.d + b.n * a.d, a.d * b.d)

RSub(a, b) == Rat(a.n * b.d - b.n * a.d, a.d * b.d)

RMul(a, b) == Rat(a.n * b.n, a.d * b.d)

RAbs(a) == [n |-> Abs(a.n), d |-> a.d]

RLeq(a, b) == a.n * b.d <= b.n * a.d

\* int(x): truncation towards zero
RTrunc(a) == IF a.n >= 0 THEN Rat(a.n \div a.d, 1) ELSE Rat(0 - ((0 - a.n) \div a.d), 1)

\* a variant that casts to int whatever the expected type
AsTypeAlwaysInt(values, expected_type) ==
    [k \in 1..Len(values) |-> RTrunc(values[k])] \o << >>

\* ndarray.astype(expected_type), elementwise (lines 188 and 198)
AsType(values, expected_type) ==
    IF expected_type = "int" THEN [k \in 1..Len(values) |-> RTrunc(values[k])] \o << >>
    ELSE values

\* quantity.to(unit) for an equivalent unit: the numbers are rescaled
Convert(q, unit) ==
    [kind |-> "quantity",
     value |-> [k \in 1..Len(q.value) |->
                   RMul(q.value[k], Rat(SiFactor(q.unit), SiFactor(unit)))] \o << >>,
     unit |-> unit]

\* np.allclose(a, b, rtol, atol): |a - b| <= atol + rtol * |b|, elementwise
AllClose(a, b, rtol, atol) ==
    \A k \in 1..Len(a) :
        RLeq(RAbs(RSub(a[k], b[k])), RAdd(atol, RMul(rtol, RAbs(b[k]))))

(***************************************************************************)
(* UnitParameter                                                           *)
(***************************************************************************)
\* the tolerance argument: a (relative, absolute) pair or a single value
TolPair(rtol, atol) == [kind |-> "pair", rtol |-> rtol, atol |-> atol]

\* value * unit: a plain array becomes a Quantity, a Quantity gets the
\* product of the units
Tag(value, unit) ==
    IF IsQuantity(value)
    THEN Quantity(value.value, value.unit \o " " \o unit)
    ELSE Quantity(value.value, unit)

\* UVParameter.__init__: if np.size(tols) == 1 the tolerance is absolute
UVParameter(name, required, value, expected_type, tols) ==
    [class |-> "UVParameter", name |-> name, required |-> required,
     value |-> value, expected_type |-> expected_type,
     tols |-> IF tols.kind = "pair" THEN tols ELSE TolPair(Rat(0, 1), tols)]

\* lines 57-77: the (relative, absolute Quantity) pair the tolerance argument
\* stands for, given the value it is for
TolsFor(tols, value) ==
    LET pair == IF tols.kind = "pair" THEN tols ELSE TolPair(Rat(0, 1), tols)
    IN  IF IsQuantity(pair.atol) THEN pair
        ELSE TolPair(pair.rtol, Quantity(pair.atol.value, value.unit))

\* UnitParameter.__init__: the object made, or the exception raised
UnitParameter(name, required, value, expected_type, expected_units, tols, value_not_quantity) ==
    IF IsQuantity(value)
    THEN IF expected_units = NoUnits
         THEN Raise("ValueError", "Input Quantity must also be accompained by the expected unit")
         ELSE IF ~IsEquivalent(value.unit, expected_units)
         THEN Raise("UnitConversionError", "Input value has units not equivalent to expected units")
         ELSE IF IsQuantity(tols) /\ tols.size > 1
         THEN Raise("ValueError", "Tolerance values that are Quantity objects must be a single value")
         ELSE IF ~IsEquivalent(TolsFor(tols, value).atol.unit, value.unit)
         THEN Raise("UnitConversionError", "Given absolute tolerance did not have compatible units")
         ELSE Return([class |-> "UnitParameter", name |-> name, required |-> required,
                      value |-> value, expected_type |-> expected_type,
                      expected_units |-> expected_units,
                      tols |-> [kind |-> "pair", rtol |-> TolsFor(tols, value).rtol,
                                atol |-> Quantity(TolsFor(tols, value).atol.value,
                                                  TolsFor(tols, value).atol.unit)],
                      value_not_quantity |-> value_not_quantity])
    ELSE IF value_not_quantity \/ value.kind = "none"
         THEN Return([class |-> "UnitParameter", name |-> name, required |-> required,
                      value |-> value, expected_type |-> expected_type,
                      expected_units |-> expected_units,
                      tols |-> IF tols.kind = "pair" THEN tols
                               ELSE TolPair(Rat(0, 1), tols),
                      value_not_quantity |-> value_not_quantity])
         ELSE Raise("ValueError", "Input value array is not an astropy Quantity object")

\* UnitParameter.to_uvp: the UVParameter made (required and not required
\* differ in spoof_val only), whether the warning was given, or the exception
to_uvp(self) ==
    IF self.value_not_quantity
    THEN [ret |-> Return(UVParameter(self.name, self.required, self.value,
                                     self.expected_type, self.tols)),
          warned |-> FALSE]
    ELSE IF ~IsQuantity(self.value)
    THEN [ret |-> Raise("AttributeError", "object has no attribute 'astype'"),
          warned |-> TRUE]
    ELSE [ret |-> Return(UVParameter(self.name, self.required,
                             [kind |-> "array",
                              value |-> AsType(self.value.value, self.expected_type)],
                             self.expected_type,
                             TolPair(self.tols.rtol, Plain(self.tols.atol.value)))),
          warned |-> TRUE]

\* isinstance(self.value, other.value.__class__): Quantity is a subclass of
\* numpy.ndarray
IsInstanceOfClass(value, other) ==
    \/ value.kind = other.kind
    \/ value.kind = "quantity" /\ other.kind = "array"

\* UVParameter.__eq__ of pyuvdata, called at line 140 and line 145: the
\* classes and the values agree, arrays within the tolerances of self
UVParameter_eq(self, other) ==
    /\ other.class = self.class \/ other.class = "UnitParameter"
    /\ self.value.kind = other.value.kind
    /\ self.value.kind = "array" =>
          /\ Len(self.value.value) = Len(other.value.value)
          /\ AllClose(self.value.value, other.value.value,
                      self.tols.rtol, self.tols.atol.value)
    /\ self.value.kind = "quantity" => self.value = other.value

\* lines 115-116: a tolerance of self without unit gets the unit of its value
WithTolUnit(h, self) ==
    IF IsQuantity(h[self].tols.atol) THEN h
    ELSE [h EXCEPT ![self].tols.atol =
             Quantity(h[self].tols.atol.value, h[self].value.unit)]

\* lines 105-137 from line 115 on, for a Quantity self.value
QuantityEq(h, self, other) ==
         IF Len(h[self].value.value) # Len(h[other].value.value)
              THEN [heap |-> h, ret |-> Return(FALSE)]
              ELSE IF ~IsQuantity(h[other].value)
              THEN [heap |-> h,
                    ret |-> Raise("AttributeError", "object has no attribute 'unit'")]
              ELSE IF ~IsEquivalent(h[self].value.unit, h[other].value.unit)
              THEN [heap |-> h, ret |-> Return(FALSE)]
              ELSE [heap |-> [h EXCEPT ![other].value =
                                 Convert(h[other].value, h[self].value.unit)],
                    ret |-> Return(AllClose(
                               h[self].value.value,
                               Convert(h[other].value, h[self].value.unit).value,
                               h[self].tols.rtol, h[self].tols.atol.value))]

\* UnitParameter.__eq__(self, other) on heap h, self and other references:
\* the value returned or the exception raised, and the heap after the call
UnitParameter_eq(h, self, other) ==
    IF h[other].class = "UnitParameter"
    THEN IF ~IsInstanceOfClass(h[self].value, h[other].value)
         THEN [heap |-> h, ret |-> Return(FALSE)]
         ELSE IF IsQuantity(h[self].value)
         THEN QuantityEq(WithTolUnit(h, self), self, other)
         ELSE [heap |-> h, ret |-> Return(UVParameter_eq(h[self], h[other]))]
    ELSE IF to_uvp(h[self]).ret.kind = "raise"
         THEN [heap |-> h, ret |-> to_uvp(h[self]).ret]
         ELSE [heap |-> h,
               ret |-> Return(UVParameter_eq(to_uvp(h[self]).ret.value, h[other]))]

\* UnitParameter.__ne__(self, other), lines 154-156: not self.__eq__(other)
UnitParameter_ne(h, self, other) ==
    [heap |-> UnitParameter_eq(h, self, other).heap,
     ret |-> IF UnitParameter_eq(h, self, other).ret.kind = "return"
             THEN Return(~UnitParameter_eq(h, self, other).ret.value)
             ELSE UnitParameter_eq(h, self, other).ret]

(***************************************************************************)
(* The inputs the callers pass.                                            *)
(***************************************************************************)
\* the shapes of the given rank with at most cells elements
RECURSIVE ShapesOf(_, _)
ShapesOf(rank, cells) ==
    IF rank = 0 THEN {<< >>}
    ELSE UNION {{<<d>> \o s : s \in ShapesOf(rank - 1, cells \div d)} : d \in 1..cells}

\* (Nbls, Ntimes, Nfreqs) and (Npols, Nbls, Ntimes, Nfreqs)
DataShapes ==
    {s \in ShapesOf(3, MaxCells) \cup ShapesOf(4, MaxCells) :
        s[Len(s) - 1] <= MaxTimes}

ArraysOf(shape, vals) == {NdArray(shape, d) : d \in [1..Prod(shape) -> vals]}

\* visibilities: 1, -1 and i
DataVals == {Cx(1, 0), Cx(-1, 0), Cx(0, 1)}

SpectrumArrays ==
    UNION {ArraysOf(s, DataVals) : s \in {t \in DataShapes : t[Len(t)] \in FftLengths}}

\* sample counts: perfect squares, so that every geometric mean is exact
SampleVals == {0, 1, 4}

SampleArrays == UNION {ArraysOf(s, SampleVals) : s \in DataShapes}

\* np.arange(n).reshape(shape)
Arange(shape) == NdArray(shape, [k \in 1..Prod(shape) |-> k - 1])

AutoInputs == {Arange(s) : s \in UNION {ShapesOf(r, MaxAutoCells) : r \in 1..MaxRank}}

\* a spectrum array that differs from a in every element: a * 1j
TimesI(a) == NdArray(a.shape, [k \in 1..Len(a.data) |-> CMul(Cx(0, 1), a.data[k])])

\* a sample-count array that differs from a in every element: (sqrt(a) - 1)**2
OtherCounts(a) ==
    NdArray(a.shape, [k \in 1..Len(a.data) |-> (Sqrt(a.data[k]) - 1) * (Sqrt(a.data[k]) - 1)])

\* how the caller passes the second array
SecondChoices == {"none", "alias", "copy", "changed", "reversed", "grown", "flat"}

\* the caller's heap before the call: the first array at reference 1 and,
\* unless the second is omitted or the first passed twice, the second at 2
CallerHeap(choice, a, changed, fill) ==
    CASE choice \in {"none", "alias"} -> <<a>>
      [] choice = "copy" -> <<a, copy(a)>>
      [] choice = "changed" -> <<a, changed>>
      [] choice = "reversed" ->
            <<a, NdArray(a.shape, [k \in 1..Len(a.data) |-> a.data[Len(a.data) + 1 - k]])>>
      [] choice = "grown" ->
            LET shape == [a.shape EXCEPT ![1] = @ + 1]
            IN  <<a, NdArray(shape, [k \in 1..Prod(shape) |-> fill])>>
      [] choice = "flat" -> <<a, NdArray(<<Len(a.data)>>, a.data)>>

SecondRef(choice) ==
    CASE choice = "none" -> None
      [] choice = "alias" -> 1
      [] OTHER -> 2

Windows == {"boxcar", "ramp"}

DeltaFChoices ==
    {Absent, Plain(2), Quantity(1, "Hz"), Quantity(2, "Hz"), Quantity(-1, "kHz"),
     Quantity(1, "m")}

\* the forms of the call delay_transform(data_1, data_2, delta_f, window)
DelayCalls ==
    {[second |-> c, delta_f |-> Quantity(2, "Hz"), window |-> "boxcar"] :
        c \in SecondChoices}
    \cup {[second |-> c, delta_f |-> Quantity(2, "Hz"), window |-> "ramp"] :
        c \in {"none", "alias", "changed"}}
    \cup {[second |-> c, delta_f |-> d, window |-> "boxcar"] :
        c \in {"none", "grown"}, d \in DeltaFChoices}

\* a tolerance Quantity of the given number of elements
TolQuantity(v, u, size) == [kind |-> "quantity", value |-> v, unit |-> u, size |-> size]

\* tols: a pair with a plain or a Quantity absolute tolerance, or one value
TolChoices ==
    {TolPair(Rat(1, 10), Plain(Rat(1, 4))),
     TolPair(Rat(0, 1), TolQuantity(Rat(1, 1), "km", 1)),
     TolQuantity(Rat(1, 4), "m", 1),
     TolQuantity(Rat(1, 4), "s", 1),
     TolQuantity(Rat(1, 4), "m", 2),
     Plain(Rat(1, 4))}

\* the numbers of a parameter value: 1.5, 2 and the array [2, 1.5]
ParamNumbers == {<<Rat(3, 2)>>, <<Rat(2, 1)>>, <<Rat(2, 1), Rat(3, 2)>>}

\* value: a Quantity, a plain array or None
ParamValues ==
    {Quantity(v, u) : v \in ParamNumbers, u \in {"m", "km", "s"}}
    \cup {[kind |-> "array", value |-> <<Rat(2, 1)>>], [kind |-> "none"]}

NoiseArgs(units) == {Plain(1)} \cup {Quantity(1, u) : u \in units}

(***************************************************************************)
(* The program: a caller makes one call and takes its outcome.             *)
(***************************************************************************)
NoCall == [op |-> "none"]

NoOutcome == [kind |-> "none"]

Init ==
    /\ pc = "idle"
    /\ heap = << >>
    /\ args = NoCall
    /\ ret = NoOutcome

CallDelayTransform ==
    /\ pc = "idle"
    /\ \E a \in SpectrumArrays, call \in DelayCalls :
       \E before \in {CallerHeap(call.second, a, TimesI(a), Cx(1, 0))} :
       \E out \in {delay_transform(before, 1, SecondRef(call.second),
                                   call.delta_f, call.window)} :
              /\ heap' = out.heap
              /\ ret' = out.ret
              /\ args' = [op |-> "delay_transform", before |-> before,
                          data_1 |-> 1, data_2 |-> SecondRef(call.second),
                          delta_f |-> call.delta_f, window |-> call.window,
                          bound_2 |-> out.data_2]
    /\ pc' = "delay_transform"

CallCombineNsamples ==
    /\ pc = "idle"
    /\ \E a \in SampleArrays, c \in SecondChoices :
       \E before \in {CallerHeap(c, a, OtherCounts(a), 1)} :
       \E out \in {combine_nsamples(before, 1, SecondRef(c))} :
              /\ heap' = out.heap
              /\ ret' = out.ret
              /\ args' = [op |-> "combine_nsamples", before |-> before,
                          data_1 |-> 1, data_2 |-> SecondRef(c),
                          bound_2 |-> out.data_2]
    /\ pc' = "combine_nsamples"

CallRemoveAutoCorrelations ==
    /\ pc = "idle"
    /\ \E a \in AutoInputs :
          /\ heap' = <<a>>
          /\ ret' = remove_auto_correlations(a)
          /\ args' = [op |-> "remove_auto_correlations", data_array |-> 1]
    /\ pc' = "remove_auto_correlations"

CallCalculateNoisePower ==
    /\ pc = "idle"
    /\ \E shape \in {<<1, 1, 1>>, <<1, 1, 2>>, <<2, 1, 2>>},
          size \in 1..MaxFreqs,
          f \in NoiseArgs({"Hz", "kHz", "s"}),
          t \in NoiseArgs({"s", "K"}),
          r \in NoiseArgs({"K", "Hz"}) :
          LET nsamples == NdArray(shape, [k \in 1..Prod(shape) |-> 1])
              freqs == IF IsQuantity(f)
                       THEN [kind |-> f.kind, unit |-> f.unit, size |-> size]
                       ELSE [kind |-> f.kind, size |-> size]
          IN  /\ heap' = <<nsamples>>
              /\ ret' = calculate_noise_power(nsamples, freqs, t, r)
              /\ args' = [op |-> "calculate_noise_power", nsamples |-> 1,
                          freqs |-> freqs, inttime |-> t, trcvr |-> r]
    /\ pc' = "calculate_noise_power"

\* UnitParameter(name, value=..., expected_units=..., ...)
Construct ==
    /\ pc = "idle"
    /\ \E value \in ParamValues, expected_units \in {NoUnits, "m"},
          expected_type \in {"int", "float"}, tols \in TolChoices,
          value_not_quantity \in BOOLEAN, required \in BOOLEAN :
       \E out \in {UnitParameter("p", required, value, expected_type,
                                 expected_units, tols, value_not_quantity)} :
          /\ heap' = IF out.kind = "return" THEN <<out.value>> ELSE << >>
          /\ ret' = IF out.kind = "return" THEN Return(1) ELSE out
          /\ args' = [op |-> "UnitParameter", value |-> value, tols |-> tols]
    /\ pc' = "UnitParameter"

\* uvp = p.to_uvp()
ToUvp ==
    /\ pc = "UnitParameter"
    /\ ret.kind = "return"
    /\ \E out \in {to_uvp(heap[1])} :
          /\ heap' = IF out.ret.kind = "return" THEN Append(heap, out.ret.value) ELSE heap
          /\ ret' = IF out.ret.kind = "return" THEN Return(2) ELSE out.ret
          /\ args' = [op |-> "to_uvp", self |-> 1, warned |-> out.warned]
    /\ pc' = "to_uvp"

\* UnitParameter(name, value=uvp.value * unit, ...) with the settings of p
Reconstruct ==
    /\ pc = "to_uvp"
    /\ ret.kind = "return"
    /\ \E unit \in {"m", "km"} :
       \E out \in {IF heap[2].value.kind = "none"
                   THEN Raise("TypeError", "unsupported operand type(s) for *")
                   ELSE UnitParameter(heap[2].name, heap[2].required,
                                      Tag(heap[2].value, unit), heap[2].expected_type,
                                      heap[1].expected_units, heap[2].tols, FALSE)} :
          /\ heap' = IF out.kind = "return" THEN Append(heap, out.value) ELSE heap
          /\ ret' = IF out.kind = "return" THEN Return(3) ELSE out
          /\ args' = [op |-> "UnitParameter", uvp |-> 2, unit |-> unit]
    /\ pc' = "reconstructed"

\* p == q or q == p for the first parameter and the reconstructed one
Compare ==
    /\ pc = "reconstructed"
    /\ ret.kind = "return"
    /\ \E pair \in {<<1, 3>>, <<3, 1>>} :
       \E out \in {UnitParameter_eq(heap, pair[1], pair[2])} :
          /\ heap' = out.heap
          /\ ret' = out.ret
          /\ args' = [op |-> "__eq__", self |-> pair[1], other |-> pair[2],
                      before |-> heap, unit |-> args.unit]
    /\ pc' = "compared"

\* the Quantity-valued parameters a caller constructs to compare them:
\* UnitParameter(name, value=..., expected_units=units.m, tols=...)
QuantityParameters ==
    {out.value : out \in
        {c \in {UnitParameter("p", TRUE, value, "float", "m", tols, FALSE) :
                   value \in {v \in ParamValues : IsQuantity(v)}, tols \in TolChoices} :
            c.kind = "return"}}

\* p = UnitParameter(...); q = UnitParameter(...)
ConstructPair ==
    /\ pc = "idle"
    /\ \E p \in QuantityParameters, q \in QuantityParameters :
          /\ heap' = <<p, q>>
          /\ args' = [op |-> "UnitParameter", first |-> <<p, q>>]
    /\ ret' = Return(2)
    /\ pc' = "pair"

\* p == q, q == p, p != q or q != p, any number of times in any order
ComparePair ==
    /\ pc = "pair"
    /\ \E pair \in {<<1, 2>>, <<2, 1>>}, op \in {"__eq__", "__ne__"} :
       \E out \in {IF op = "__eq__" THEN UnitParameter_eq(heap, pair[1], pair[2])
                                    ELSE UnitParameter_ne(heap, pair[1], pair[2])} :
          /\ heap' = out.heap
          /\ ret' = out.ret
          /\ args' = [op |-> op, self |-> pair[1], other |-> pair[2],
                      before |-> heap, first |-> args.first]
    /\ pc' = "pair"

\* the caller takes the outcome and drops its arrays
Finish ==
    /\ pc # "idle"
    /\ pc' = "idle"
    /\ heap' = << >>
    /\ args' = NoCall
    /\ ret' = NoOutcome

Next ==
    \/ CallDelayTransform
    \/ CallCombineNsamples
    \/ CallRemoveAutoCorrelations
    \/ CallCalculateNoisePower
    \/ Construct
    \/ ToUvp
    \/ Reconstruct
    \/ Compare
    \/ ConstructPair
    \/ ComparePair
    \/ Finish

Spec == Init /\ [][Next]_vars

\* the program restricted to calls of one routine
NextTransform == CallDelayTransform \/ Finish

SpecTransform == Init /\ [][NextTransform]_vars

NextSamples == CallCombineNsamples \/ Finish

SpecSamples == Init /\ [][NextSamples]_vars

NextCross == CallDelayTransform \/ CallCombineNsamples \/ Finish

SpecCross == Init /\ [][NextCross]_vars

NextAuto == CallRemoveAutoCorrelations \/ Finish

SpecAuto == Init /\ [][NextAuto]_vars

NextParameter == Construct \/ ToUvp \/ Reconstruct \/ Compare \/ Finish

SpecParameter == Init /\ [][NextParameter]_vars

NextNoise == CallCalculateNoisePower \/ Finish

SpecNoise == Init /\ [][NextNoise]_vars

NextCompare == ConstructPair \/ ComparePair \/ Finish

SpecCompare == Init /\ [][NextCompare]_vars

(***************************************************************************)
(* Properties.                                                             *)
(***************************************************************************)
\* the multi-indices of an array of the given shape
Indices(shape) == {Unravel(k - 1, shape) : k \in 1..Prod(shape)}

Range(seq) == {seq[k] : k \in 1..Len(seq)}

DelayReturned == pc = "delay_transform" /\ ret.kind = "return"

\* the delta_f the call runs with
EffectiveDeltaF == IF args.delta_f = Absent THEN Quantity(1, "Hz") ELSE args.delta_f

\* the windowed, shifted, delta_f-scaled transform of the array at reference r
TransformOf(r) ==
    LET nfreqs == heap[r].shape[Len(heap[r].shape)]
    IN  DelayArray(heap[r], NdArray(<<1, nfreqs>>, Window(args.window, nfreqs)),
                   EffectiveDeltaF.value * SiFactor(EffectiveDeltaF.unit))

\* the baseline axis of a rank-3 or rank-4 input (0-based)
BlsAxis(rank) == rank - 3

\* the output shape: the input shape with its baseline axis doubled
DoubledShape(shape) ==
    SubSeq(shape, 1, BlsAxis(Len(shape)) + 1) \o SubSeq(shape, BlsAxis(Len(shape)) + 1, Len(shape))

\* the multi-index of the input array that output index idx reads through
\* its first (which = 1) or second (which = 2) baseline axis
InputIndex(idx, which) ==
    LET b == BlsAxis(Len(idx) - 1)
    IN  SubSeq(idx, 1, b) \o <<idx[b + which]>> \o SubSeq(idx, b + 3, Len(idx))

\* every entry is conj(F1[first]) * F2[second], where first and second say
\* which output baseline axis indexes data_1 and which data_2
CrossEntries(first, second) ==
    \A F1 \in {TransformOf(args.data_1)} : \A F2 \in {TransformOf(args.bound_2)} :
        /\ ret.value.shape = DoubledShape(heap[args.data_1].shape)
        /\ \A idx \in Indices(ret.value.shape) :
              At(ret.value, idx) = CMul(Conj(At(F1, InputIndex(idx, first))),
                                        At(F2, InputIndex(idx, second)))

\* C1 as stated: the delay_transform output has the input shape with the
\* baseline axis doubled, and entry [.., i, j, t, f] is
\* conj(F1[.., i, t, f]) * F2[.., j, t, f]: the first baseline axis indexes
\* data_1 and the second data_2.
C1_FirstAxisIsData1 == DelayReturned => CrossEntries(1, 2)

\* C1 amended: the output has the input shape with the baseline axis doubled,
\* and entry [.., i, j, t, f] is conj(F1[.., j, t, f]) * F2[.., i, t, f]: the
\* first baseline axis indexes data_2 and the second data_1.
C1_FirstAxisIsData2 == DelayReturned => CrossEntries(2, 1)

\* a call that returned, with two baselines and a second array that differs
C1_Witness ==
    /\ DelayReturned
    /\ args.data_2 = 2
    /\ heap[1].shape[BlsAxis(Len(heap[1].shape)) + 1] >= 2
    /\ heap[2].data # heap[1].data
    /\ \E idx \in Indices(ret.value.shape) : At(ret.value, idx).im # 0

AutoCalled == pc = "remove_auto_correlations"

\* the place of the pair (i, j), i # j, among the off-diagonal pairs in
\* row-major order
PairPlace(i, j, Nbls) == i * (Nbls - 1) + (IF j < i THEN j ELSE j - 1)

\* C2: for a rank-4 (Nbls, Nbls, Ntimes, Nfreqs) or rank-5
\* (Npols, Nbls, Nbls, Ntimes, Nfreqs) input, remove_auto_correlations returns
\* an array whose baseline axis has length Nbls * (Nbls - 1) and holds exactly
\* the entries [i, j] with i # j, in row-major order, and no entry [i, i];
\* a (3, 3, 1, 1) input holding 0..8 yields [1, 2, 3, 5, 6, 7].
C2_OffDiagonalRowMajor ==
    \A a \in {IF AutoCalled THEN heap[1] ELSE Arange(<<1>>)} :
    \A lead \in {Len(a.shape) - 4} :
        (AutoCalled /\ lead \in {0, 1} /\ a.shape[lead + 1] = a.shape[lead + 2]) =>
            \A Nbls \in {a.shape[lead + 1]} :
                /\ ret.kind = "return"
                /\ ret.value.shape = SubSeq(a.shape, 1, lead) \o <<Nbls * (Nbls - 1)>>
                                        \o SubSeq(a.shape, lead + 3, Len(a.shape))
                /\ \A idx \in Indices(a.shape) :
                      IF idx[lead + 1] # idx[lead + 2]
                      THEN At(ret.value,
                              SubSeq(idx, 1, lead)
                                \o <<PairPlace(idx[lead + 1], idx[lead + 2], Nbls)>>
                                \o SubSeq(idx, lead + 3, Len(idx))) = At(a, idx)
                      ELSE At(a, idx) \notin Range(ret.value.data)
                /\ a.shape = <<3, 3, 1, 1>> => ret.value.data = <<1, 2, 3, 5, 6, 7>>

\* the (3, 3, 1, 1) input of the concrete scenario
C2_Witness ==
    /\ AutoCalled
    /\ heap[1].shape = <<3, 3, 1, 1>>
    /\ ret.kind = "return"
    /\ Len(ret.value.data) = 6

CombineReturned == pc = "combine_nsamples" /\ ret.kind = "return"

\* the call was combine_nsamples(n, n): both arguments hold the same counts
SameSamples == heap[args.bound_2] = heap[args.data_1]

\* C3 as stated: combine_nsamples(n, n) equals n elementwise (compared as
\* numpy compares arrays of different rank, by broadcasting n).
C3_EqualsInput ==
    (CombineReturned /\ SameSamples) =>
        \A idx \in Indices(ret.value.shape) :
            At(ret.value, idx) = BAt(heap[args.data_1], idx)

\* C3 amended: combine_nsamples(n, n) has the shape of n with the baseline
\* axis doubled, and its same-baseline entries [.., i, i, t, f] equal
\* n[.., i, t, f].
C3_DiagonalEqualsInput ==
    (CombineReturned /\ SameSamples) =>
        /\ ret.value.shape = DoubledShape(heap[args.data_1].shape)
        /\ \A idx \in Indices(ret.value.shape) :
              InputIndex(idx, 1) = InputIndex(idx, 2) =>
                  At(ret.value, idx) = At(heap[args.data_1], InputIndex(idx, 1))

\* combine_nsamples(n, n) for two baselines with different counts
C3_Witness ==
    /\ CombineReturned
    /\ SameSamples
    /\ ret.value.shape[BlsAxis(Len(heap[1].shape)) + 1] >= 2
    /\ \E idx \in Indices(ret.value.shape) :
          /\ InputIndex(idx, 1) = InputIndex(idx, 2)
          /\ At(ret.value, idx) = 4

DelayCalled == pc = "delay_transform"

\* the call ended with the validation error of line 53
DeltaFRejected ==
    /\ ret.kind = "raise"
    /\ ret.exc = "ValueError"
    /\ ret.msg = "delta_f must be an astropy Quantity object"

\* C4 as stated: delay_transform fails with a validation error whenever
\* delta_f is absent or passed as a value that is no Quantity, and returns a
\* result only when the caller supplied a Quantity.
C4_AbsentOrPlainRejected ==
    DelayCalled =>
        /\ args.delta_f.kind \in {"absent", "plain"} => DeltaFRejected
        /\ ret.kind = "return" => args.delta_f.kind = "quantity"

\* C4 amended: delay_transform fails with a validation error whenever
\* delta_f is passed as a value that is no Quantity; when delta_f is absent
\* the call runs as with delta_f = 1 Hz and raises no validation error; it
\* returns a result only when delta_f is absent or a Quantity.
C4_PlainRejectedAbsentIsOneHz ==
    DelayCalled =>
        /\ args.delta_f.kind = "plain" => DeltaFRejected
        /\ args.delta_f.kind = "absent" =>
              /\ ~DeltaFRejected
              /\ ret = delay_transform(args.before, args.data_1, args.data_2,
                                       Quantity(1, "Hz"), args.window).ret
        /\ ret.kind = "return" => args.delta_f.kind \in {"absent", "quantity"}

\* a call without delta_f that returned a result
C4_Witness ==
    /\ DelayCalled
    /\ args.delta_f = Absent
    /\ ret.kind = "return"
    /\ Len(ret.value.data) >= 4

\* a call with a plain delta_f
C4_WitnessPlain == DelayCalled /\ args.delta_f.kind = "plain" /\ DeltaFRejected

CrossCalled == pc \in {"delay_transform", "combine_nsamples"}

\* the call ended with the shape error of line 60 or line 111
ShapeRejected ==
    /\ ret.kind = "raise"
    /\ ret.exc = "ValueError"
    /\ ret.msg = (IF pc = "delay_transform"
                  THEN "data_1_array and data_2_array must have same shape"
                  ELSE "nsample_1 and nsample_2 must have same shape")

\* C5: when a second array is passed whose shape differs from the first,
\* delay_transform (called with a Quantity delta_f, which is checked first)
\* and combine_nsamples fail with the shape error, a ValueError, and return
\* no result; whatever delta_f is, the call with differing shapes ends in a
\* ValueError without a result; for equal shapes no shape error is raised.
C5_ShapeMismatchRejected ==
    (CrossCalled /\ args.data_2 # None) =>
        IF args.before[args.data_2].shape # args.before[args.data_1].shape
        THEN /\ ret.kind = "raise"
             /\ ret.exc = "ValueError"
             /\ (pc = "combine_nsamples" \/ args.delta_f.kind # "plain") => ShapeRejected
        ELSE ~ShapeRejected

\* a second array of another shape, rejected by each routine
C5_Witness ==
    /\ pc = "delay_transform"
    /\ args.data_2 = 2
    /\ args.before[2].shape # args.before[1].shape
    /\ Len(args.before[2].shape) = Len(args.before[1].shape)
    /\ ShapeRejected

C5_WitnessSamples ==
    /\ pc = "combine_nsamples"
    /\ args.data_2 = 2
    /\ args.before[2].shape # args.before[1].shape
    /\ ShapeRejected

NoiseCalled == pc = "calculate_noise_power"

NonQuantityArgs ==
    {n \in {"freqs", "inttime", "trcvr"} :
        ~IsQuantity(CASE n = "freqs" -> args.freqs
                      [] n = "inttime" -> args.inttime
                      [] n = "trcvr" -> args.trcvr)}

\* C6: calculate_noise_power fails with a validation error (ValueError) on
\* every call in which at least one of freqs, inttime, trcvr is a plain
\* number; the error names an argument that is a plain number (the one that
\* is wrong, when only one is), and no noise power is returned.
C6_PlainArgumentRejected ==
    (NoiseCalled /\ NonQuantityArgs # {}) =>
        /\ ret.kind = "raise"
        /\ ret.exc = "ValueError"
        /\ \E n \in NonQuantityArgs :
              ret.msg = n \o " must be an astropy Quantity object"

\* a call in which only freqs is a plain number, rejected naming freqs
C6_Witness ==
    /\ NoiseCalled
    /\ NonQuantityArgs = {"freqs"}
    /\ ret.kind = "raise"
    /\ ret.msg = "freqs must be an astropy Quantity object"

\* the call was delay_transform(x, x, delta_f) for a real-valued x
RealAutoPower ==
    /\ DelayReturned
    /\ heap[args.bound_2] = heap[args.data_1]
    /\ \A k \in 1..Len(heap[args.data_1].data) : heap[args.data_1].data[k].im = 0

\* the output entries at the zero-delay bin
ZeroDelayIndices ==
    {idx \in Indices(ret.value.shape) :
        idx[Len(idx)] = ZeroBin(ret.value.shape[Len(ret.value.shape)])}

\* C7 as stated: for real x every entry of delay_transform(x, x, delta_f) at
\* the zero-delay bin is real and non-negative.
C7_ZeroDelayNonNegative ==
    RealAutoPower =>
        \A idx \in ZeroDelayIndices :
            At(ret.value, idx).im = 0 /\ At(ret.value, idx).re >= 0

\* C7 amended: for real x every entry of delay_transform(x, x, delta_f) at
\* the zero-delay bin is real, and every same-baseline entry (i = j) there is
\* non-negative.
C7_ZeroDelayAutoNonNegative ==
    RealAutoPower =>
        \A idx \in ZeroDelayIndices :
            /\ At(ret.value, idx).im = 0
            /\ InputIndex(idx, 1) = InputIndex(idx, 2) => At(ret.value, idx).re >= 0

\* a real x with a non-zero auto power, transformed with a negative delta_f
C7_Witness ==
    /\ RealAutoPower
    /\ args.delta_f = Quantity(-1, "kHz")
    /\ \E idx \in ZeroDelayIndices :
          InputIndex(idx, 1) = InputIndex(idx, 2) /\ At(ret.value, idx).re > 0

\* the reference of the array omitted as second argument was bound
SecondBound == ~(pc = "delay_transform" /\ DeltaFRejected)

\* C8: omitting the second array gives the result of passing a copy of the
\* first, for delay_transform and for combine_nsamples; the array bound in
\* its place is a new object that holds the elements of the first, not the
\* caller's first array, which the call leaves as it was.
C8_OmittedSecondIsCopy ==
    (CrossCalled /\ args.data_2 = None) =>
        /\ ret = (IF pc = "delay_transform"
                  THEN delay_transform(<<args.before[1], copy(args.before[1])>>, 1, 2,
                                       args.delta_f, args.window).ret
                  ELSE combine_nsamples(<<args.before[1], copy(args.before[1])>>,
                                        1, 2).ret)
        /\ SecondBound =>
              /\ args.bound_2 # args.data_1
              /\ args.bound_2 \notin DOMAIN args.before
              /\ heap[args.bound_2] = args.before[args.data_1]
        /\ heap[args.data_1] = args.before[args.data_1]

\* a call without second array that returned the cross products of two baselines
C8_Witness ==
    /\ pc = "delay_transform"
    /\ args.data_2 = None
    /\ ret.kind = "return"
    /\ Len(heap) = 2
    /\ Len(ret.value.data) >= 4

C8_WitnessSamples ==
    /\ pc = "combine_nsamples"
    /\ args.data_2 = None
    /\ ret.kind = "return"
    /\ Len(heap) = 2

\* C9: remove_auto_correlations fails with a shape error (ValueError) for
\* every input whose rank is neither 4 nor 5, and raises no ValueError for a
\* rank-4 or rank-5 input.
C9_RankRejected ==
    AutoCalled =>
        ((Len(heap[1].shape) \notin {4, 5})
            <=> (ret.kind = "raise" /\ ret.exc = "ValueError"))

\* a rank-5 input accepted and a rank-3 input rejected
C9_Witness == AutoCalled /\ Len(heap[1].shape) = 5 /\ ret.kind = "return"

C9_WitnessRejected ==
    AutoCalled /\ Len(heap[1].shape) = 3 /\ ret.kind = "raise" /\ ret.exc = "ValueError"

\* the first parameter, as it was constructed
FirstParameter == IF pc = "compared" THEN args.before[1] ELSE heap[1]

\* the first parameter was constructed with a Quantity value, downcast with
\* to_uvp, and the downcast value tagged with the unit of that value
RoundTripMade ==
    /\ pc \in {"reconstructed", "compared"}
    /\ IsQuantity(FirstParameter.value)
    /\ args.unit = FirstParameter.value.unit

\* the numbers are of the expected type already
IsOfType(values, expected_type) ==
    expected_type = "float" \/ \A k \in 1..Len(values) : values[k].d = 1

\* C10 as stated: a UnitParameter constructed with a Quantity value and its
\* expected unit, downcast with to_uvp and reconstructed from the downcast
\* value tagged with the same unit, compares equal to the original.
C10_RoundTripEqual ==
    RoundTripMade =>
        IF pc = "reconstructed" THEN ret.kind = "return" ELSE ret = Return(TRUE)

\* C10 amended: the round trip compares equal (either way round) when the
\* parameter was constructed with value_not_quantity left False and its
\* numbers are of its expected_type, so that to_uvp's cast to expected_type
\* changes none of them.
C10_RoundTripEqualForTypedValue ==
    (/\ RoundTripMade
     /\ ~FirstParameter.value_not_quantity
     /\ IsOfType(FirstParameter.value.value, FirstParameter.expected_type)) =>
        IF pc = "reconstructed" THEN ret.kind = "return" ELSE ret = Return(TRUE)

\* a round trip of 1.5 km, expected as float in m, compared equal
C10_Witness ==
    /\ RoundTripMade
    /\ pc = "compared"
    /\ ~FirstParameter.value_not_quantity
    /\ FirstParameter.value = Quantity(<<Rat(3, 2)>>, "km")
    /\ FirstParameter.expected_type = "float"
    /\ args.self = 1
    /\ ret = Return(TRUE)

\* two Quantity-valued parameters were compared with == or !=
PairCompared == pc = "pair" /\ args.op \in {"__eq__", "__ne__"}

\* the value (numbers and unit) and the tols of the parameter at reference r
\* are in heap h what they are in heap g
SameValueAndTols(h, g, r) == h[r].value = g[r].value /\ h[r].tols = g[r].tols

\* C11: comparing two Quantity-valued UnitParameter objects with == or != is a
\* pure query: the value (numbers and unit) and the tols of the left and of
\* the right operand are after the comparison what they were before it, and,
\* comparisons being repeated and reversed in any sequence, what they were
\* when the parameters were constructed.
C11_ComparisonIsPure ==
    PairCompared =>
        \A r \in {args.self, args.other} :
            /\ SameValueAndTols(heap, args.before, r)
            /\ SameValueAndTols(heap, args.first, r)

====
